---------------------------- MODULE Spec2Model ----------------------------
(***************************************************************************)
(* Model of telegram_digest.py: the Summarizer with its remote/local       *)
(* fallback, fetch_unread_messages, build_digest_message, and the order    *)
(* of effects of main.                                                     *)
(*                                                                         *)
(* Strings are sequences of one-character strings.  TLA+ strings are       *)
(* ASCII, so the non-ASCII literals of the source are written as ASCII     *)
(* stand-ins: "*" is the bullet U+2022, and each fixed Korean/emoji        *)
(* literal is one token named in capitals between brackets, such as        *)
(* "[NO_TEXT]".  A token of more than one character is always text of the  *)
(* program (a literal or an entity produced by html.escape), never text    *)
(* of an input.                                                            *)
(***************************************************************************)
EXTENDS Integers, Sequences, FiniteSets, TLC

VARIABLES
    api_key,    \* Summarizer.api_key, read from OPENAI_API_KEY at construction
    call,       \* the last Summarizer.summarize call: input, outcome, trace
    upstream,   \* what client.iter_dialogs()/iter_messages() will yield
    limit,      \* args.limit
    fetch,      \* locals of fetch_unread_messages: position, pending, result
    digest,     \* the last build_digest_message call: arguments, lines, message
    env,        \* environment/arguments read by main and post_via_bot
    run         \* main's position and the effects it has had so far

vars == <<api_key, call, upstream, limit, fetch, digest, env, run>>

-----------------------------------------------------------------------------
(* Bounds of the model *)

MaxPieces == 2      \* a raw text is the concatenation of at most this many pieces
MaxItems == 4       \* items handed to one build_digest_message call
MaxCap == 3         \* largest max_items handed to build_digest_message
MaxDialogs == 2     \* dialogs the upstream client lists in one run
MaxLimit == 3       \* largest --limit

-----------------------------------------------------------------------------
(* Characters and basic string helpers (Python str methods) *)

WS == {" ", "\n", "\t"}              \* what \s and str.strip() treat as whitespace
SentenceEnd == {".", "!", "?"}       \* [.!?] of the split pattern (ASCII part)
BulletStrip == {" ", "-", "*"}       \* the argument of chunk.strip(" -*")

None == <<"[None]">>                 \* Python's None where a str is expected

Rep(c, n) == [i \in 1..n |-> c]

Min(a, b) == IF a < b THEN a ELSE b

Prefix(s, n) == SubSeq(s, 1, Min(Len(s), n))      \* s[:n] for n >= 0

RECURSIVE LStrip(_, _)
LStrip(s, chars) ==
    IF s # <<>> /\ Head(s) \in chars THEN LStrip(Tail(s), chars) ELSE s

RECURSIVE RStrip(_, _)
RStrip(s, chars) ==
    IF s # <<>> /\ s[Len(s)] \in chars
    THEN RStrip(SubSeq(s, 1, Len(s) - 1), chars)
    ELSE s

StrStrip(s, chars) == RStrip(LStrip(s, chars), chars)       \* str.strip(chars)

RECURSIVE Join(_, _)
Join(sep, parts) ==                                          \* sep.join(parts)
    IF parts = <<>> THEN <<>>
    ELSE IF Len(parts) = 1 THEN parts[1]
    ELSE parts[1] \o sep \o Join(sep, Tail(parts))

-----------------------------------------------------------------------------
(* normalize_text *)

SubWs(s) ==                                     \* re.sub(r"\s+", " ", s)
    LET marked == [i \in 1..Len(s) |->
                     IF s[i] \notin WS THEN s[i]
                     ELSE IF i > 1 /\ s[i - 1] \in WS THEN "[drop]"
                     ELSE " "]
        Kept(c) == c # "[drop]"
    IN SelectSeq(marked, Kept)

\* normalize_text without the strip(): collapses whitespace only.
normalize_text_NoStrip(text) ==
    SubWs(IF text = None THEN <<>> ELSE text)

normalize_text(text) ==
    SubWs(StrStrip(IF text = None THEN <<>> ELSE text, WS))

-----------------------------------------------------------------------------
(* summarize_locally *)

MinChunkLen == 15
FallbackLen == 240
MaxLineLen == 220
MaxSentences == 3

RECURSIVE RunStart(_, _)
RunStart(t, i) ==           \* first index of the whitespace run that holds i
    IF i > 1 /\ t[i - 1] \in WS THEN RunStart(t, i - 1) ELSE i

\* The characters a match of r"(?<=[.!?])\s+|\n+" consumes: a whole whitespace
\* run that directly follows a sentence end (first alternative), and, in any
\* other place, each run of newlines (second alternative).
Separator(t, i) ==
    \/ t[i] = "\n"
    \/ /\ t[i] \in WS
       /\ RunStart(t, i) > 1
       /\ t[RunStart(t, i) - 1] \in SentenceEnd

ReSplit(t) ==                \* re.split(r"(?<=[.!?])\s+|\n+", t)
    LET n == Len(t)
        idx == [i \in 1..n |-> i]
        IsStart(i) == Separator(t, i) /\ (i = 1 \/ ~Separator(t, i - 1))
        IsEnd(i) == Separator(t, i) /\ (i = n \/ ~Separator(t, i + 1))
        starts == SelectSeq(idx, IsStart)
        ends == SelectSeq(idx, IsEnd)
        m == Len(starts)
    IN [k \in 1..(m + 1) |->
          SubSeq(t, IF k = 1 THEN 1 ELSE ends[k - 1] + 1,
                    IF k = m + 1 THEN n ELSE starts[k] - 1)]

FilterChunks(chunks) ==
    LET LongEnough(chunk) == Len(StrStrip(chunk, WS)) > MinChunkLen
        kept == SelectSeq(chunks, LongEnough)
    IN [k \in 1..Len(kept) |-> StrStrip(kept[k], BulletStrip)]

summarize_locally(text, max_sentences) ==
    LET chunks == ReSplit(text)
        kept == FilterChunks(chunks)
        filtered == IF kept = <<>> THEN <<Prefix(text, FallbackLen)>> ELSE kept
        selected == Prefix(filtered, max_sentences)
    IN Join(<<"\n">>,
            [k \in 1..Len(selected) |-> <<"*", " ">> \o Prefix(selected[k], MaxLineLen)])

-----------------------------------------------------------------------------
(* Summarizer *)

NoTextSentinel == <<"[NO_TEXT]">>         \* the literal returned for empty text

Truthy(s) == s # None /\ s # <<>>         \* Python truth of an optional str

ApiKeys == {None, <<>>, <<"s", "k">>}     \* OPENAI_API_KEY unset, empty, set

\* What the remote endpoint does with one request.  "network_error": requests.post
\* raises; "http_error": raise_for_status raises; "malformed": response.json() or
\* the payload lookup raises; "ok": the body holds this completion text.
RemoteContents ==
    { <<>>,
      <<" ", "\n">>,
      <<" ", "*", " ", "o", "k", ".", "\n">>,
      Rep("x", MaxLineLen + 1) }

RemoteOutcomes ==
    { [kind |-> k, content |-> <<>>] : k \in {"network_error", "http_error", "malformed"} }
    \cup { [kind |-> "ok", content |-> c] : c \in RemoteContents }

\* _summarize_remote reading the body leniently: a malformed body counts as an
\* empty completion instead of raising.
summarize_remote_Lenient(text, outcome) ==
    IF outcome.kind \in {"ok", "malformed"}
    THEN [ok |-> TRUE, value |-> StrStrip(outcome.content, WS)]
    ELSE [ok |-> FALSE, value |-> <<>>]

\* Summarizer._summarize_remote: the stripped completion, or the exception raised.
summarize_remote(text, outcome) ==
    IF outcome.kind = "ok"
    THEN [ok |-> TRUE, value |-> StrStrip(outcome.content, WS)]
    ELSE [ok |-> FALSE, value |-> <<>>]

\* summarize with a second remote attempt after a failed one.
summarize_Retry(key, text, outcome) ==
    LET cleaned == normalize_text(text) IN
    IF cleaned = <<>>
    THEN [raised |-> FALSE, value |-> NoTextSentinel, trace |-> <<>>]
    ELSE IF Truthy(key)
    THEN LET r == summarize_remote(cleaned, outcome) IN
         IF r.ok
         THEN [raised |-> FALSE, value |-> r.value,
               trace |-> <<[op |-> "remote", arg |-> cleaned]>>]
         ELSE [raised |-> FALSE, value |-> summarize_locally(cleaned, MaxSentences),
               trace |-> <<[op |-> "remote", arg |-> cleaned],
                           [op |-> "remote", arg |-> cleaned],
                           [op |-> "local", arg |-> cleaned]>>]
    ELSE [raised |-> FALSE, value |-> summarize_locally(cleaned, MaxSentences),
          trace |-> <<[op |-> "local", arg |-> cleaned]>>]

\* Summarizer.summarize.  trace lists the collaborators the call invoked, in order,
\* each with the argument it was given; raised tells whether an exception left
\* the call.
summarize(key, text, outcome) ==
    LET cleaned == normalize_text(text) IN
    IF cleaned = <<>>
    THEN [raised |-> FALSE, value |-> NoTextSentinel, trace |-> <<>>]
    ELSE IF Truthy(key)
    THEN LET r == summarize_remote(cleaned, outcome) IN
         IF r.ok
         THEN [raised |-> FALSE, value |-> r.value,
               trace |-> <<[op |-> "remote", arg |-> cleaned]>>]
         ELSE [raised |-> FALSE, value |-> summarize_locally(cleaned, MaxSentences),
               trace |-> <<[op |-> "remote", arg |-> cleaned],
                           [op |-> "local", arg |-> cleaned]>>]
    ELSE [raised |-> FALSE, value |-> summarize_locally(cleaned, MaxSentences),
          trace |-> <<[op |-> "local", arg |-> cleaned]>>]

\* Raw message texts: concatenations of a few pieces that between them reach
\* every branch of normalize_text and summarize_locally.
TextPieces ==
    { <<" ">>,
      <<"\n">>,
      <<"a", "b", ".">>,
      Rep("a", MinChunkLen + 1) \o <<".", " ">>,
      <<"-", " ">> \o Rep("b", MinChunkLen + 1) \o <<"?", "\n">>,
      Rep("d", MinChunkLen + 1) \o <<"!", "\t">> \o Rep("e", MinChunkLen + 1) \o <<".", " ">>,
      Rep("-", MinChunkLen + 1),
      Rep("c", FallbackLen + 1) }

RECURSIVE Concats(_)
Concats(n) ==
    IF n = 0 THEN {<<>>}
    ELSE LET shorter == Concats(n - 1)
         IN shorter \cup {p \o q : p \in shorter, q \in TextPieces}

RawTexts == {None} \cup Concats(MaxPieces)

NoCall == [done |-> FALSE, text |-> None, outcome |-> [kind |-> "-", content |-> <<>>],
           raised |-> FALSE, value |-> <<>>, trace |-> <<>>]

-----------------------------------------------------------------------------
(* DigestItem and build_digest_message *)

DigestItem(title, cid, mid, date, text, summary, link) ==
    [channel_title |-> title, channel_id |-> cid, message_id |-> mid, date |-> date,
     text |-> text, summary |-> summary, message_link |-> link]

MarkupChars == {"&", "<", ">", "\"", "'"}

Escape(s) ==                                  \* html.escape(s), quote=True
    [i \in 1..Len(s) |->
        CASE s[i] = "&" -> "&amp;"
          [] s[i] = "<" -> "&lt;"
          [] s[i] = ">" -> "&gt;"
          [] s[i] = "\"" -> "&quot;"
          [] s[i] = "'" -> "&#x27;"
          [] OTHER -> s[i]]

NoUnreadSentinel == <<"[NO_UNREAD]">>         \* the literal returned for no items
HeaderLine == <<"[HEADER <b>..</b>]">>        \* lines[0]

Slice(items, n) ==                            \* items[:n]
    IF n >= 0 THEN Prefix(items, n)
    ELSE SubSeq(items, 1, IF Len(items) + n > 0 THEN Len(items) + n ELSE 0)

\* The keys of `grouped` in reverse insertion order.
GroupKeys_Reversed(capped) ==
    LET titles == [i \in 1..Len(capped) |-> capped[i].channel_title]
        idx == [i \in 1..Len(capped) |-> i]
        First(i) == \A j \in 1..(i - 1) : titles[j] # titles[i]
        firsts == SelectSeq(idx, First)
    IN [k \in 1..Len(firsts) |-> titles[firsts[Len(firsts) + 1 - k]]]

\* The keys of `grouped`: a dict keeps its keys in the order of first insertion.
GroupKeys(capped) ==
    LET titles == [i \in 1..Len(capped) |-> capped[i].channel_title]
        idx == [i \in 1..Len(capped) |-> i]
        First(i) == \A j \in 1..(i - 1) : titles[j] # titles[i]
        firsts == SelectSeq(idx, First)
    IN [k \in 1..Len(firsts) |-> titles[firsts[k]]]

GroupItems(capped, channel) ==                \* grouped[channel]
    LET Same(item) == item.channel_title = channel
    IN SelectSeq(capped, Same)

ItemLine(idx, item) == <<ToString(idx), ") ">> \o Escape(item.summary)

LinkLine(item) == <<"[LINK] <a href=\"">> \o item.message_link \o <<"\">[ORIGINAL]</a>">>

ChannelLine(channel) == <<"\n[PIN] <b>">> \o Escape(channel) \o <<"</b>">>

RECURSIVE Flatten(_)
Flatten(seqs) == IF seqs = <<>> THEN <<>> ELSE Head(seqs) \o Flatten(Tail(seqs))

GroupLines(capped, channel) ==
    LET channel_items == GroupItems(capped, channel)
    IN <<ChannelLine(channel)>> \o
       Flatten([idx \in 1..Len(channel_items) |->
                  <<ItemLine(idx, channel_items[idx]), LinkLine(channel_items[idx])>>])

\* The trailing note, citing the number of items handed in.
NoteLines_Total(items, max_items) ==
    IF Len(items) > max_items
    THEN << <<"\n[AND] ", ToString(Len(items)), "[MORE_IN_FILES]">> >>
    ELSE <<>>

NoteLines(items, max_items) ==
    IF Len(items) > max_items
    THEN << <<"\n[AND] ", ToString(Len(items) - max_items), "[MORE_IN_FILES]">> >>
    ELSE <<>>

DigestLines(items, max_items) ==
    LET capped == Slice(items, max_items)
        keys == GroupKeys(capped)
    IN <<HeaderLine>>
       \o Flatten([g \in 1..Len(keys) |-> GroupLines(capped, keys[g])])
       \o NoteLines(items, max_items)

build_digest_message(items, max_items) ==
    IF items = <<>> THEN NoUnreadSentinel
    ELSE Join(<<"\n">>, DigestLines(items, max_items))

\* Items handed to build_digest_message: three channels, two of them sharing a
\* title, and content with or without markup characters.  message_id is the
\* item's position, so that every item has a link of its own.
DigestChannels ==
    { [title |-> <<"A">>, id |-> 1001],
      [title |-> <<"A">>, id |-> 1002],
      [title |-> <<"B", "<", "&">>, id |-> 1003] }

DigestContents ==
    { [summary |-> <<"*", " ", "o", "k">>, base |-> <<"t", ".", "m", "e", "/">>],
      [summary |-> <<"*", " ", "<", "i", ">", "&", "'">>,
       base |-> <<"t", ".", "m", "e", "/", "\"", ">", "&", "/">>] }

ItemKinds == DigestChannels \X DigestContents

MakeItems(kinds) ==
    [i \in 1..Len(kinds) |->
        DigestItem(kinds[i][1].title, kinds[i][1].id, i, <<"d">>, <<"t">>,
                   kinds[i][2].summary, kinds[i][2].base \o <<ToString(i)>>)]

RECURSIVE KindSeqs(_)
KindSeqs(n) ==
    IF n = 0 THEN {<<>>}
    ELSE LET shorter == KindSeqs(n - 1)
         IN shorter \cup {Append(q, k) : q \in shorter, k \in ItemKinds}

ItemSeqs == {MakeItems(q) : q \in KindSeqs(MaxItems)}

-----------------------------------------------------------------------------
(* build_message_link and fetch_unread_messages *)

RECURSIVE Digits(_)
Digits(n) ==                                   \* str(n) for n >= 0
    IF n < 10 THEN <<ToString(n)>> ELSE Append(Digits(n \div 10), ToString(n % 10))

Abs(n) == IF n < 0 THEN -n ELSE n

build_message_link(channel, message_id) ==
    IF Truthy(channel.username)
    THEN <<"https://t.me/">> \o channel.username \o <<"/">> \o Digits(message_id)
    ELSE LET channel_id_str == Digits(Abs(channel.id))
             internal_id ==
                 IF Len(channel_id_str) >= 3 /\ SubSeq(channel_id_str, 1, 3) = <<"1", "0", "0">>
                 THEN SubSeq(channel_id_str, 4, Len(channel_id_str))
                 ELSE channel_id_str
         IN <<"https://t.me/c/">> \o internal_id \o <<"/">> \o Digits(message_id)

\* messages.reverse() left out.
Reverse_Kept(s) == s

Reverse(s) == [i \in 1..Len(s) |-> s[Len(s) + 1 - i]]        \* messages.reverse()

\* client.iter_messages(entity, limit=count): the newest `count` messages of the
\* entity, newest first; a count below 1 yields none.
iter_messages(dialog, count) == Prefix(dialog.messages, IF count > 0 THEN count ELSE 0)

\* The inner async-for of fetch_unread_messages followed by messages.reverse().
CollectMessages(dialog, lim) ==
    LET count == Min(dialog.unread_count, lim)
        Qualifies(msg) == msg.unread /\ (Truthy(msg.message) \/ Truthy(msg.raw_text))
    IN Reverse(SelectSeq(iter_messages(dialog, count), Qualifies))

MessageText(msg) ==                      \* msg.raw_text or msg.message or ""
    IF Truthy(msg.raw_text) THEN msg.raw_text
    ELSE IF Truthy(msg.message) THEN msg.message
    ELSE <<>>

FormatDate(date) == <<"[date]", ToString(date)>>     \* strftime of msg.date

\* What the upstream client can list.  A dialog's messages are given newest
\* first, with ids and dates falling; U is an unread message with text, R a read
\* one, N an unread one without text, B an unread one of whitespace only.
MessageKinds ==
    [U |-> [unread |-> TRUE, text |-> <<"h", "i">>],
     R |-> [unread |-> FALSE, text |-> <<"h", "i">>],
     N |-> [unread |-> TRUE, text |-> <<>>],
     B |-> [unread |-> TRUE, text |-> <<" ", "\n">>]]

MakeMessages(kinds) ==
    [i \in 1..Len(kinds) |->
        [id |-> 10 + Len(kinds) - i, date |-> 500 + Len(kinds) - i,
         unread |-> MessageKinds[kinds[i]].unread,
         message |-> MessageKinds[kinds[i]].text,
         raw_text |-> MessageKinds[kinds[i]].text]]

DialogKinds ==
    { [is_channel |-> FALSE, unread_count |-> 1, username |-> None, base |-> 7,
       kinds |-> <<"U">>],
      [is_channel |-> TRUE, unread_count |-> 0, username |-> <<"n", "e", "w", "s">>,
       base |-> 8, kinds |-> <<"R", "R">>],
      [is_channel |-> TRUE, unread_count |-> 3, username |-> None, base |-> 1009,
       kinds |-> <<"U">>],
      [is_channel |-> TRUE, unread_count |-> 1, username |-> <<"n", "e", "w", "s">>,
       base |-> 8, kinds |-> <<"U", "R", "U">>],
      [is_channel |-> TRUE, unread_count |-> 3, username |-> None, base |-> 1009,
       kinds |-> <<"U", "R", "U">>],
      [is_channel |-> TRUE, unread_count |-> 2, username |-> <<>>, base |-> -4,
       kinds |-> <<"N", "B", "U">>],
      [is_channel |-> TRUE, unread_count |-> 3, username |-> None, base |-> -1003,
       kinds |-> <<"N", "B", "U">>] }

\* The dialog at place p of the listing; its entity id ends in p, so that no two
\* dialogs of a listing share an id.
MakeDialog(kind, p) ==
    [is_channel |-> kind.is_channel,
     title |-> <<"T", ToString(kind.unread_count)>>,
     unread_count |-> kind.unread_count,
     entity |-> [id |-> IF kind.base < 0 THEN kind.base * 10 - p ELSE kind.base * 10 + p,
                 username |-> kind.username],
     messages |-> MakeMessages(kind.kinds)]

RECURSIVE DialogKindSeqs(_)
DialogKindSeqs(n) ==
    IF n = 0 THEN {<<>>}
    ELSE LET shorter == DialogKindSeqs(n - 1)
         IN shorter \cup {Append(q, k) : q \in shorter, k \in DialogKinds}

Upstreams ==
    { [p \in 1..Len(q) |-> MakeDialog(q[p], p)] : q \in DialogKindSeqs(MaxDialogs) }

\* What the remote endpoint may answer to a request made during a fetch.
FetchOutcomes ==
    { [kind |-> "http_error", content |-> <<>>],
      [kind |-> "ok", content |-> <<" ", "\n">>],
      [kind |-> "ok", content |-> <<" ", "*", " ", "o", "k", ".", "\n">>] }

-----------------------------------------------------------------------------
(* post_via_bot *)

DefaultMaxItems == 20          \* build_digest_message's max_items default

\* What the notification endpoint does with the sendMessage request.
BotResponses == {"2xx", "non_2xx", "network_error"}

\* post_via_bot sending the request again after a non-2xx answer.
post_via_bot_Retry(e, message, response) ==
    IF ~Truthy(e.bot_token) \/ ~Truthy(e.chat_id)
    THEN [error |-> "ConfigurationError", sent |-> <<>>]
    ELSE IF response = "2xx" THEN [error |-> "none", sent |-> <<message>>]
    ELSE IF response = "non_2xx"
         THEN [error |-> "NotificationDeliveryError", sent |-> <<message, message>>]
    ELSE [error |-> "NetworkError", sent |-> <<message>>]

\* post_via_bot: the exception that leaves it ("none" when it returns) and the
\* requests it made to the endpoint.
post_via_bot(e, message, response) ==
    IF ~Truthy(e.bot_token) \/ ~Truthy(e.chat_id)
    THEN [error |-> "ConfigurationError", sent |-> <<>>]
    ELSE IF response = "2xx" THEN [error |-> "none", sent |-> <<message>>]
    ELSE IF response = "non_2xx"
         THEN [error |-> "NotificationDeliveryError", sent |-> <<message>>]
    ELSE [error |-> "NetworkError", sent |-> <<message>>]

-----------------------------------------------------------------------------
(* Idle values of the parts of the state a specification does not use *)

IdleUpstream == <<>>
IdleFetch == [pc |-> "idle", next |-> 1, pending |-> <<>>, result |-> <<>>]
IdleDigest ==
    [pc |-> "idle", items |-> <<>>, max_items |-> 0, lines |-> <<>>, message |-> <<>>]
IdleEnv ==
    [api_id |-> None, api_hash |-> None, authorized |-> FALSE, phone |-> None,
     post |-> FALSE, bot_token |-> None, chat_id |-> None]
IdleRun == [pc |-> "idle", items |-> <<>>, files |-> {}, sent |-> <<>>, error |-> "none"]

-----------------------------------------------------------------------------
(* SpecSum: one Summarizer, called with any text against any remote outcome *)

InitSum ==
    /\ api_key \in ApiKeys
    /\ call = NoCall
    /\ upstream = IdleUpstream
    /\ limit = 0
    /\ fetch = IdleFetch
    /\ digest = IdleDigest
    /\ env = IdleEnv
    /\ run = IdleRun

Summarize ==
    /\ ~call.done
    /\ \E text \in RawTexts, outcome \in RemoteOutcomes :
         LET r == summarize(api_key, text, outcome)
         IN call' = [done |-> TRUE, text |-> text, outcome |-> outcome,
                     raised |-> r.raised, value |-> r.value, trace |-> r.trace]
    /\ UNCHANGED <<api_key, upstream, limit, fetch, digest, env, run>>

SummarizeReturn ==
    /\ call.done
    /\ call' = NoCall
    /\ UNCHANGED <<api_key, upstream, limit, fetch, digest, env, run>>

NextSum == Summarize \/ SummarizeReturn

SpecSum == InitSum /\ [][NextSum]_vars

-----------------------------------------------------------------------------
(* Claims about Summarizer.summarize, checked under SpecSum *)

IsBlank(text) ==            \* empty, missing or whitespace-only
    text = None \/ \A i \in 1..Len(text) : text[i] \in WS

Count(trace, op) == Cardinality({i \in 1..Len(trace) : trace[i].op = op})

RemoteFailed(c) == c.outcome.kind # "ok"

\* C1: whenever a credential is configured, the text is not blank and the remote
\* adapter fails (network error, non-2xx status or malformed body), summarize
\* raises nothing and returns exactly summarize_locally(normalize_text(rawText)).
C1_FallbackOnRemoteFailure ==
    (call.done /\ Truthy(api_key) /\ ~IsBlank(call.text) /\ RemoteFailed(call))
        => /\ ~call.raised
           /\ call.value = summarize_locally(normalize_text(call.text), MaxSentences)

\* A fallback call whose raw text differs from its normalized form and whose
\* local summary holds more than one line.
C1_Witness ==
    /\ call.done /\ Truthy(api_key) /\ ~IsBlank(call.text)
    /\ call.outcome.kind = "malformed"
    /\ call.text # normalize_text(call.text)
    /\ Count(call.trace, "local") = 1
    /\ \E i \in 1..Len(call.value) : call.value[i] = "\n"

\* C2: for every blank raw text (empty, missing or whitespace-only) summarize
\* returns the "no text" sentinel and the remote adapter is not invoked, whether
\* or not a credential is configured.
C2_BlankTextNoRemoteCall ==
    (call.done /\ IsBlank(call.text))
        => /\ call.value = NoTextSentinel
           /\ Count(call.trace, "remote") = 0

\* A whitespace-only text summarized with a credential configured.
C2_Witness ==
    /\ call.done /\ Truthy(api_key)
    /\ call.text # None /\ Len(call.text) > 0 /\ IsBlank(call.text)
    /\ call.value = NoTextSentinel

\* C3: with a credential configured and non-blank text the remote adapter is
\* attempted exactly once; if it succeeds with value V the call returns exactly V
\* and the local summarizer does not run; the local summarizer runs at most once,
\* and only when no credential is configured or the remote attempt failed.
C3_EachTierAtMostOnce ==
    call.done =>
        /\ (Truthy(api_key) /\ ~IsBlank(call.text))
              => /\ Count(call.trace, "remote") = 1
                 /\ ~RemoteFailed(call)
                       => /\ call.value = StrStrip(call.outcome.content, WS)
                          /\ Count(call.trace, "local") = 0
        /\ Count(call.trace, "local") <= 1
        /\ Count(call.trace, "local") = 1 => (~Truthy(api_key) \/ RemoteFailed(call))

\* A successful remote call whose value is longer than any local line.
C3_Witness ==
    /\ call.done /\ Truthy(api_key) /\ ~IsBlank(call.text)
    /\ call.outcome.kind = "ok"
    /\ Len(call.value) > MaxLineLen
    /\ call.trace = <<[op |-> "remote", arg |-> normalize_text(call.text)]>>

-----------------------------------------------------------------------------
(* SpecDigest: build_digest_message called with any items and any max_items *)

InitDigest ==
    /\ api_key = None
    /\ call = NoCall
    /\ upstream = IdleUpstream
    /\ limit = 0
    /\ fetch = IdleFetch
    /\ digest = IdleDigest
    /\ env = IdleEnv
    /\ run = IdleRun

BuildDigestMessage ==
    /\ digest.pc = "idle"
    /\ \E items \in ItemSeqs, max_items \in (-1)..MaxCap :
         digest' = [pc |-> "done", items |-> items, max_items |-> max_items,
                    lines |-> IF items = <<>> THEN <<>>
                              ELSE DigestLines(items, max_items),
                    message |-> build_digest_message(items, max_items)]
    /\ UNCHANGED <<api_key, call, upstream, limit, fetch, env, run>>

BuildDigestReturn ==
    /\ digest.pc = "done"
    /\ digest' = IdleDigest
    /\ UNCHANGED <<api_key, call, upstream, limit, fetch, env, run>>

NextDigest == BuildDigestMessage \/ BuildDigestReturn

SpecDigest == InitDigest /\ [][NextDigest]_vars

-----------------------------------------------------------------------------
(* Claims about build_digest_message, checked under SpecDigest *)

IsChannelLine(l) == l[1] = "\n[PIN] <b>"
IsNoteLine(l) == l[1] = "\n[AND] "
IsItemLine(l) == Len(l) >= 2 /\ l[2] = ") "
IsLinkLine(l) == l[1] = "[LINK] <a href=\""

Inner(l) == SubSeq(l, 2, Len(l) - 1)     \* a line without its first and last token

LineIdx(lines, Test(_)) ==
    LET idx == [i \in 1..Len(lines) |-> i]
        Hit(i) == Test(lines[i])
    IN SelectSeq(idx, Hit)

\* The items a message renders, in output order: the summary text of each item
\* line with the link of the line that follows it.
Rendered(lines) ==
    LET at == LineIdx(lines, IsItemLine)
    IN [r \in 1..Len(at) |->
          [number |-> lines[at[r]][1],
           summary |-> SubSeq(lines[at[r]], 3, Len(lines[at[r]])),
           link |-> IF at[r] < Len(lines) /\ IsLinkLine(lines[at[r] + 1])
                    THEN Inner(lines[at[r] + 1]) ELSE <<"[no link line]">>]]

Renders(r, item) ==
    /\ r.summary = Escape(item.summary)
    /\ r.link \in {item.message_link, Escape(item.message_link)}

\* C7: for non-empty items and max_items >= 0 the message renders exactly the
\* first min(len(items), max_items) items and no others, and ends with the
\* omitted-items note iff len(items) > max_items, citing len(items) - max_items;
\* for no items it is exactly the "no unread messages" sentinel, with no header,
\* group or note.
C7_CapAndOmittedNote ==
    digest.pc = "done" =>
        LET items == digest.items
            lines == digest.lines
            n == Min(Len(items), digest.max_items)
            rendered == Rendered(lines)
            notes == LineIdx(lines, IsNoteLine)
        IN /\ items = <<>> => (digest.message = NoUnreadSentinel /\ lines = <<>>)
           /\ (items # <<>> /\ digest.max_items >= 0) =>
                 /\ digest.message = Join(<<"\n">>, lines)
                 /\ Len(rendered) = n
                 /\ \A k \in 1..Len(items) :
                       (k <= n) <=> \E r \in 1..Len(rendered) : Renders(rendered[r], items[k])
                 /\ (notes # <<>>) <=> (Len(items) > digest.max_items)
                 /\ \A i \in 1..Len(notes) :
                       /\ notes[i] = Len(lines)
                       /\ lines[notes[i]][2] = ToString(Len(items) - digest.max_items)

\* A message that renders the first two of four items and cites two omitted.
C7_Witness ==
    /\ digest.pc = "done"
    /\ Len(digest.items) = 4 /\ digest.max_items = 2
    /\ Len(Rendered(digest.lines)) = 2
    /\ digest.lines[Len(digest.lines)][2] = "2"

\* C8: the capped items are grouped by channel_title only: every distinct title
\* among them has exactly one group heading, the groups stand in the order in which
\* their titles first occur in the incoming sequence, and inside a group the items
\* keep their incoming order and are numbered 1, 2, ..., k without gaps.
C8_GroupedByTitleFirstSeen ==
    (digest.pc = "done" /\ digest.items # <<>> /\ digest.max_items >= 0) =>
        LET items == digest.items
            lines == digest.lines
            capped == Prefix(items, digest.max_items)
            heads == LineIdx(lines, IsChannelLine)
            notes == LineIdx(lines, IsNoteLine)
            body == Len(lines) - Len(notes)        \* index of the last group line
            Title(g) == Inner(lines[heads[g]])
            FirstAt(et) ==
                CHOOSE i \in 1..Len(items) :
                    /\ Escape(items[i].channel_title) = et
                    /\ \A j \in 1..(i - 1) : Escape(items[j].channel_title) # et
            Members(g) ==
                LET InGroup(item) == Escape(item.channel_title) = Title(g)
                IN SelectSeq(capped, InGroup)
            Last(g) == IF g < Len(heads) THEN heads[g + 1] - 1 ELSE body
        IN /\ {Title(g) : g \in 1..Len(heads)}
                = {Escape(capped[i].channel_title) : i \in 1..Len(capped)}
           /\ \A g, h \in 1..Len(heads) : g # h => Title(g) # Title(h)
           /\ \A g, h \in 1..Len(heads) : g < h => FirstAt(Title(g)) < FirstAt(Title(h))
           /\ \A g \in 1..Len(heads) :
                 /\ Last(g) - heads[g] = 2 * Len(Members(g))
                 /\ \A j \in 1..Len(Members(g)) :
                       /\ lines[heads[g] + 2 * j - 1][1] = ToString(j)
                       /\ IsItemLine(lines[heads[g] + 2 * j - 1])
                       /\ IsLinkLine(lines[heads[g] + 2 * j])
                       /\ Renders([summary |-> SubSeq(lines[heads[g] + 2 * j - 1], 3,
                                                     Len(lines[heads[g] + 2 * j - 1])),
                                   link |-> Inner(lines[heads[g] + 2 * j])],
                                  Members(g)[j])

\* Two channels with one title rendered as one group of two items around an item
\* of another title, whose group comes second.
C8_Witness ==
    /\ digest.pc = "done" /\ digest.max_items = 3 /\ Len(digest.items) >= 3
    /\ digest.items[1].channel_title = digest.items[3].channel_title
    /\ digest.items[1].channel_id # digest.items[3].channel_id
    /\ digest.items[2].channel_title # digest.items[1].channel_title
    /\ Len(LineIdx(digest.lines, IsChannelLine)) = 2
    /\ digest.lines[2] = ChannelLine(digest.items[1].channel_title)
    /\ digest.lines[5][1] = "2"

\* C9: every item-derived text in the notification message is escaped: no raw
\* markup character of a channel title, a summary or a message link reaches the
\* output.
C9_ItemTextEscaped ==
    digest.pc = "done" =>
        \A i \in 1..Len(digest.message) : digest.message[i] \notin MarkupChars

-----------------------------------------------------------------------------
(* SpecFetch: one fetch_unread_messages call over any upstream listing.  Its   *)
(* steps end where the coroutine awaits the client or calls the summarizer.    *)

InitFetch ==
    /\ api_key \in {None, <<"s", "k">>}
    /\ call = NoCall
    /\ upstream \in Upstreams
    /\ limit \in 0..MaxLimit
    /\ fetch = [pc |-> "dialogs", next |-> 1, pending |-> <<>>, result |-> <<>>]
    /\ digest = IdleDigest
    /\ env = IdleEnv
    /\ run = IdleRun

Skipped(dialog) == ~dialog.is_channel \/ dialog.unread_count <= 0

\* iter_dialogs yields a dialog that is no channel or has nothing unread.
FetchSkipDialog ==
    /\ fetch.pc = "dialogs"
    /\ fetch.next <= Len(upstream)
    /\ Skipped(upstream[fetch.next])
    /\ fetch' = [fetch EXCEPT !.next = @ + 1]
    /\ UNCHANGED <<api_key, call, upstream, limit, digest, env, run>>

\* iter_dialogs yields a channel with unread messages: they are collected and
\* reversed; with none left the loop goes on to the next dialog.
FetchCollect ==
    /\ fetch.pc = "dialogs"
    /\ fetch.next <= Len(upstream)
    /\ ~Skipped(upstream[fetch.next])
    /\ LET messages == CollectMessages(upstream[fetch.next], limit)
       IN fetch' = IF messages = <<>>
                   THEN [fetch EXCEPT !.next = @ + 1]
                   ELSE [fetch EXCEPT !.pc = "messages", !.pending = messages]
    /\ UNCHANGED <<api_key, call, upstream, limit, digest, env, run>>

\* One round of `for msg in messages`: summarize and append the DigestItem.
FetchSummarizeMessage ==
    /\ fetch.pc = "messages"
    /\ fetch.pending # <<>>
    /\ \E outcome \in FetchOutcomes :
         LET dialog == upstream[fetch.next]
             msg == Head(fetch.pending)
             text == MessageText(msg)
             summary == summarize(api_key, text, outcome).value
             item == DigestItem(dialog.title, dialog.entity.id, msg.id,
                                FormatDate(msg.date), text, summary,
                                build_message_link(dialog.entity, msg.id))
             rest == Tail(fetch.pending)
         IN fetch' = [pc |-> IF rest = <<>> THEN "dialogs" ELSE "messages",
                      next |-> IF rest = <<>> THEN fetch.next + 1 ELSE fetch.next,
                      pending |-> rest,
                      result |-> Append(fetch.result, item)]
    /\ UNCHANGED <<api_key, call, upstream, limit, digest, env, run>>

\* iter_dialogs is exhausted: return result.
FetchReturn ==
    /\ fetch.pc = "dialogs"
    /\ fetch.next > Len(upstream)
    /\ fetch' = [fetch EXCEPT !.pc = "done"]
    /\ UNCHANGED <<api_key, call, upstream, limit, digest, env, run>>

NextFetch == FetchSkipDialog \/ FetchCollect \/ FetchSummarizeMessage \/ FetchReturn

SpecFetch == InitFetch /\ [][NextFetch]_vars

-----------------------------------------------------------------------------
(* Claims about fetch_unread_messages, checked under SpecFetch *)

\* C4: the summary of every DigestItem a run produces is never the empty string,
\* whatever the message text and whatever the remote adapter does.
C4_SummaryNeverEmpty ==
    \A i \in 1..Len(fetch.result) : fetch.result[i].summary # <<>>

\* Message k of dialog d is one fetch_unread_messages has to turn into an item.
Qualifying(d, k) ==
    /\ upstream[d].is_channel
    /\ upstream[d].unread_count > 0
    /\ k <= upstream[d].unread_count /\ k <= limit
    /\ upstream[d].messages[k].unread
    /\ upstream[d].messages[k].message \notin {None, <<>>}

DialogOf(item) == CHOOSE d \in 1..Len(upstream) : upstream[d].entity.id = item.channel_id

MessageOf(item) ==
    CHOOSE k \in 1..Len(upstream[DialogOf(item)].messages) :
        upstream[DialogOf(item)].messages[k].id = item.message_id

\* C10: the returned list holds exactly one item per qualifying message (unread,
\* with text, among the first min(unread_count, limit) messages of a channel with
\* unread messages), none twice and none for any other message; the items of one
\* channel are contiguous, the channels stand in the order the upstream listed
\* them, and inside a channel the items are in ascending chronological order.
C10_OneItemPerQualifyingMessageInOrder ==
    fetch.pc = "done" =>
        LET result == fetch.result
            wanted == UNION { { <<d, k>> : k \in {n \in 1..Len(upstream[d].messages) :
                                                      Qualifying(d, n)} } :
                              d \in 1..Len(upstream) }
            Key(item) == <<item.channel_id, item.message_id>>
        IN /\ Len(result) = Cardinality(wanted)
           /\ {Key(result[i]) : i \in 1..Len(result)}
                = {<<upstream[w[1]].entity.id, upstream[w[1]].messages[w[2]].id>> : w \in wanted}
           /\ \A i \in 1..Len(result) :
                 /\ result[i].channel_title = upstream[DialogOf(result[i])].title
                 /\ result[i].text
                      = upstream[DialogOf(result[i])].messages[MessageOf(result[i])].message
           /\ \A i, j \in 1..Len(result) :
                 i < j =>
                    \/ DialogOf(result[i]) < DialogOf(result[j])
                    \/ /\ DialogOf(result[i]) = DialogOf(result[j])
                       /\ upstream[DialogOf(result[i])].messages[MessageOf(result[i])].date
                            < upstream[DialogOf(result[j])].messages[MessageOf(result[j])].date

\* A finished fetch over a skipped dialog and a channel that gave two items, the
\* read message between them left out.
C10_Witness ==
    /\ fetch.pc = "done"
    /\ Len(upstream) = 2
    /\ Skipped(upstream[1])
    /\ Len(upstream[2].messages) = 3 /\ ~upstream[2].messages[2].unread
    /\ Len(fetch.result) = 2
    /\ fetch.result[1].message_id < fetch.result[2].message_id

-----------------------------------------------------------------------------
(* SpecMain: one run of main under any environment and arguments *)

EnvValues == {None, <<>>, <<"v">>}        \* a variable unset, empty, set

Envs ==
    [api_id : EnvValues, api_hash : {None, <<"v">>}, authorized : BOOLEAN,
     phone : {None, <<"v">>}, post : BOOLEAN, bot_token : EnvValues, chat_id : EnvValues]

\* What fetch_unread_messages may hand to main.
FetchedItems == {MakeItems(q) : q \in {<<>>} \cup {<<k>> : k \in ItemKinds}}

InitMain ==
    /\ api_key = None
    /\ call = NoCall
    /\ upstream = IdleUpstream
    /\ limit = 0
    /\ fetch = IdleFetch
    /\ digest = IdleDigest
    /\ env \in Envs
    /\ run = [pc |-> "start", items |-> <<>>, files |-> {}, sent |-> <<>>, error |-> "none"]

Abort(kind) == run' = [run EXCEPT !.pc = "aborted", !.error = kind]

\* Lines 257-263: the platform credentials are read and the client connects.
MainCheckCredentials ==
    /\ run.pc = "start"
    /\ IF ~Truthy(env.api_id) \/ ~Truthy(env.api_hash)
       THEN Abort("ConfigurationError")
       ELSE run' = [run EXCEPT !.pc = "auth"]
    /\ UNCHANGED <<api_key, call, upstream, limit, fetch, digest, env>>

\* Lines 265-275: first login when the session is not authorized.
MainAuthorize ==
    /\ run.pc = "auth"
    /\ IF ~env.authorized /\ ~Truthy(env.phone)
       THEN Abort("ConfigurationError")
       ELSE run' = [run EXCEPT !.pc = "fetch"]
    /\ UNCHANGED <<api_key, call, upstream, limit, fetch, digest, env>>

\* Line 277.
MainFetch ==
    /\ run.pc = "fetch"
    /\ \E items \in FetchedItems : run' = [run EXCEPT !.pc = "write_html", !.items = items]
    /\ UNCHANGED <<api_key, call, upstream, limit, fetch, digest, env>>

\* write_outputs, line 248: the HTML report is written, or the write fails.
MainWriteHtml ==
    /\ run.pc = "write_html"
    /\ \/ run' = [run EXCEPT !.pc = "write_json", !.files = @ \cup {"html"}]
       \/ Abort("OSError")
    /\ UNCHANGED <<api_key, call, upstream, limit, fetch, digest, env>>

\* write_outputs, line 249: the JSON export is written, or the write fails.
MainWriteJson ==
    /\ run.pc = "write_json"
    /\ \/ run' = [run EXCEPT !.pc = "post", !.files = @ \cup {"json"}]
       \/ Abort("OSError")
    /\ UNCHANGED <<api_key, call, upstream, limit, fetch, digest, env>>

\* Lines 282-285 with --post.
MainPost ==
    /\ run.pc = "post"
    /\ env.post
    /\ \E response \in BotResponses :
         LET message == build_digest_message(run.items, DefaultMaxItems)
             r == post_via_bot(env, message, response)
         IN run' = [run EXCEPT !.pc = IF r.error = "none" THEN "disconnect" ELSE "aborted",
                               !.error = r.error,
                               !.sent = @ \o r.sent]
    /\ UNCHANGED <<api_key, call, upstream, limit, fetch, digest, env>>

\* Line 282 without --post.
MainSkipPost ==
    /\ run.pc = "post"
    /\ ~env.post
    /\ run' = [run EXCEPT !.pc = "disconnect"]
    /\ UNCHANGED <<api_key, call, upstream, limit, fetch, digest, env>>

\* Line 287.
MainDisconnect ==
    /\ run.pc = "disconnect"
    /\ run' = [run EXCEPT !.pc = "done"]
    /\ UNCHANGED <<api_key, call, upstream, limit, fetch, digest, env>>

NextMain ==
    \/ MainCheckCredentials \/ MainAuthorize \/ MainFetch \/ MainWriteHtml
    \/ MainWriteJson \/ MainPost \/ MainSkipPost \/ MainDisconnect

SpecMain == InitMain /\ [][NextMain]_vars

-----------------------------------------------------------------------------
(* Claims about main, checked under SpecMain *)

\* C5: a configuration error (platform credentials missing at startup, or the
\* push requested without bot token or chat id) ends the run before the HTML
\* report or the JSON export has been written.
C5_ConfigErrorBeforeAnyOutput ==
    run.error = "ConfigurationError" => run.files = {}

BothWritten == run.files = {"html", "json"}

\* C6: the notification endpoint is contacted only after both output files are
\* written; a non-2xx answer is surfaced without a second request; and no step,
\* before or after that failure, removes a written file.
C6_NotifyAfterOutputsNoRetry ==
    /\ [](/\ run.sent # <<>> => BothWritten
          /\ Len(run.sent) <= 1
          /\ run.error = "NotificationDeliveryError"
                => (run.pc = "aborted" /\ Len(run.sent) = 1 /\ BothWritten))
    /\ [][run.files \subseteq run'.files]_vars

\* A run ended by a non-2xx answer to its one request, both files on disk.
C6_Witness ==
    /\ run.pc = "aborted"
    /\ run.error = "NotificationDeliveryError"
    /\ Len(run.sent) = 1
    /\ run.items # <<>>
    /\ BothWritten

=============================================================================
